---- MODULE Spec2Model ----
(***************************************************************************)
(* RP2040 quadrature encoder firmware (rp2040-encoder/code.py).            *)
(*                                                                         *)
(* The firmware is one module-level poll loop.  Each iteration             *)
(*   1. samples the two pins and decodes the transition       (Poll)       *)
(*   2. reads the clock and sends the accumulated delta        (Send)      *)
(*   3. looks for one inbound command line and handles it      (CmdStep)   *)
(* pc is the position of the loop.  Time is counted in ticks of 25 ms, so  *)
(* that SEND_INTERVAL = 0.05 s is 2 ticks and time.sleep(0.1) is 4 ticks.  *)
(*                                                                         *)
(* JSON values are records [t |-> type, v |-> value]; a JSON object is a   *)
(* function from its keys to JSON values.                                  *)
(***************************************************************************)
EXTENDS Integers, Sequences, FiniteSets, TLC

VARIABLES
    position,           \* global position (a JSON value: reset stores cmd.get("position", 0))
    accumulated_delta,  \* global accumulated_delta
    last_send_time,     \* global last_send_time
    last_state,         \* global last_state, (A << 1) | B of the previous sample
    index,              \* global index, the last table index computed (-1: not yet bound)
    led,                \* led.value
    data,               \* usb_cdc.data is not None (boot.py enables it)
    clock,              \* time.monotonic(), in ticks
    pc,                 \* "poll", "send", "cmd", "readline" (blocked in readline),
                        \* or "crashed" (uncaught exception)
    line,               \* the line check_for_commands read in this iteration
    out,                \* the writes issued on usb_cdc.data in this iteration
    lastReportAt,       \* clock of the last scheduled report that reached the wire (-1: none)
    walk,               \* samples polled since loop start (recorded under SpecWalk only)
    inbuf,              \* complete lines waiting on the port, oldest first (SpecQueue only)
    sinceAttempt,       \* sum of the deltas applied since the last scheduled send attempt
    lastReported,       \* position of the last encoder report on the wire (Void after a failed write)
    ledCmd              \* the LED was on by a SetLed command when the last poll began

vars == <<position, accumulated_delta, last_send_time, last_state, index, led,
          data, clock, pc, line, out, lastReportAt, walk,
          inbuf, sinceAttempt, lastReported, ledCmd>>

----------------------------------------------------------------------------
(* Bounds of the model *)

MaxPos == 4          \* |position| explored
MaxAcc == 3          \* |accumulated_delta| explored
MaxTime == 30        \* last clock value explored
MaxAdvance == 2      \* largest clock advance between two readings
MaxWalk == 4         \* longest recorded walk (SpecWalk)
MaxQueue == 2        \* most lines waiting on the port (SpecQueue)

(* Program constants, in ticks of 25 ms *)

SEND_INTERVAL == 2   \* SEND_INTERVAL = 0.05
RESET_SLEEP == 4     \* time.sleep(0.1) inside the reset handler
STARTUP_SLEEP == 4   \* time.sleep(0.1), six times in the startup flash

StartupTime == 3 * (STARTUP_SLEEP + STARTUP_SLEEP)

----------------------------------------------------------------------------
(* JSON values *)

JInt(n) == [t |-> "int", v |-> n]
JStr(s) == [t |-> "str", v |-> s]
JBool(b) == [t |-> "bool", v |-> b]

IsInt(x) == x.t = "int"

Void == [t |-> "void", v |-> 0]
IsStrEq(x, s) == x.t = "str" /\ x.v = s

\* Python truth value of a JSON scalar (led.value = <object>)
Truthy(x) ==
    CASE x.t = "bool" -> x.v
      [] x.t = "int" -> x.v # 0
      [] x.t = "str" -> x.v # ""

----------------------------------------------------------------------------
(* State table for quadrature decoding, index = (last << 2) | current *)

ENCODER_TABLE_neg == <<
    0, 1, -1, 0,
    -1, 0, 0, 1,
    1, 0, 0, -1,
    0, 1, 1, 0 >>

ENCODER_TABLE == <<
    0, 1, -1, 0,
    -1, 0, 0, 1,
    1, 0, 0, -1,
    0, -1, 1, 0 >>

\* (a << 1) | b for the two pin values
State(a, b) == 2 * a + b

\* index = (last_state << 2) | current_state
TableIndex_swapped(last, cur) == cur * 4 + last

TableIndex(last, cur) == last * 4 + cur

\* delta = ENCODER_TABLE[index]   (Python indexes from 0)
Lookup(i) == ENCODER_TABLE[i + 1]

States == 0 .. 3

----------------------------------------------------------------------------
(* Inbound lines, and what json.loads makes of them *)

L_EMPTY == ""
L_BLANK == "  "
L_GARBAGE == "garbage"
L_NUMBER == "5"
L_NOTYPE == "{}"
L_UNKNOWN == "{\"type\":\"unknown\"}"
L_PING == "{\"type\":\"ping\"}"
L_RESET == "{\"type\":\"reset\"}"
L_RESET2 == "{\"type\":\"reset\",\"position\":2}"
L_RESETSTR == "{\"type\":\"reset\",\"position\":\"abc\"}"
L_LED == "{\"type\":\"led\"}"
L_LEDON == "{\"type\":\"led\",\"on\":true}"
L_LEDSTR == "{\"type\":\"led\",\"on\":\"yes\"}"

Lines == { L_EMPTY, L_BLANK, L_GARBAGE, L_NUMBER, L_NOTYPE, L_UNKNOWN, L_PING,
           L_RESET, L_RESET2, L_RESETSTR, L_LED, L_LEDON, L_LEDSTR }

NoLine == "<no data>"

\* str.strip()
strip(l) == IF l = L_BLANK THEN "" ELSE l

\* json.loads(line): [ok |-> FALSE] is ValueError, otherwise the value and
\* whether it is a dict (has .get)
json_loads(l) ==
    CASE l = L_NUMBER   -> [ok |-> TRUE, isdict |-> FALSE, val |-> JInt(5)]
      [] l = L_NOTYPE   -> [ok |-> TRUE, isdict |-> TRUE, val |-> <<>>]
      [] l = L_UNKNOWN  -> [ok |-> TRUE, isdict |-> TRUE, val |-> [type |-> JStr("unknown")]]
      [] l = L_PING     -> [ok |-> TRUE, isdict |-> TRUE, val |-> [type |-> JStr("ping")]]
      [] l = L_RESET    -> [ok |-> TRUE, isdict |-> TRUE, val |-> [type |-> JStr("reset")]]
      [] l = L_RESET2   -> [ok |-> TRUE, isdict |-> TRUE,
                            val |-> [type |-> JStr("reset"), position |-> JInt(2)]]
      [] l = L_RESETSTR -> [ok |-> TRUE, isdict |-> TRUE,
                            val |-> [type |-> JStr("reset"), position |-> JStr("abc")]]
      [] l = L_LED      -> [ok |-> TRUE, isdict |-> TRUE, val |-> [type |-> JStr("led")]]
      [] l = L_LEDON    -> [ok |-> TRUE, isdict |-> TRUE,
                            val |-> [type |-> JStr("led"), on |-> JBool(TRUE)]]
      [] l = L_LEDSTR   -> [ok |-> TRUE, isdict |-> TRUE,
                            val |-> [type |-> JStr("led"), on |-> JStr("yes")]]
      [] OTHER          -> [ok |-> FALSE]

\* dict.get(key, default)
get(d, key, default) == IF key \in DOMAIN d THEN d[key] ELSE default

----------------------------------------------------------------------------
(* Outbound writes.  An entry of out is one usb_cdc.data.write call:        *)
(* the message, who issued it, the clock, and whether the write succeeded  *)
(* (ok = FALSE: the write raised and nothing reached the wire).            *)

EncoderMsg(delta, pos, by, at, ok) ==
    [type |-> "encoder", delta |-> delta, position |-> pos,
     by |-> by, at |-> at, ok |-> ok]

PongMsg_zero(pos, at, ok) ==
    [type |-> "pong", delta |-> 0, position |-> JInt(0),
     by |-> "ping", at |-> at, ok |-> ok]

PongMsg(pos, at, ok) ==
    [type |-> "pong", delta |-> 0, position |-> pos,
     by |-> "ping", at |-> at, ok |-> ok]

\* send_encoder_data(delta, pos): the log o with the write it issues, if any
send_encoder_data_unit(o, delta, pos, by, at, ok) ==
    IF data
    THEN Append(o, EncoderMsg(IF delta > 0 THEN 1 ELSE IF delta < 0 THEN -1 ELSE 0,
                              pos, by, at, ok))
    ELSE o

send_encoder_data(o, delta, pos, by, at, ok) ==
    IF data THEN Append(o, EncoderMsg(delta, pos, by, at, ok)) ELSE o

----------------------------------------------------------------------------
Init ==
    /\ position = JInt(0)
    /\ accumulated_delta = 0
    /\ last_send_time = 0
    /\ last_state \in States
    /\ index = -1
    /\ led = FALSE
    /\ data \in BOOLEAN
    /\ clock = StartupTime
    /\ pc = "poll"
    /\ line = NoLine
    /\ out = <<>>
    /\ lastReportAt = -1
    /\ walk = <<>>
    /\ inbuf = <<>>
    /\ sinceAttempt = 0
    /\ lastReported = JInt(0)
    /\ ledCmd = FALSE

----------------------------------------------------------------------------
(* Main loop, lines 121-139: sample the pins and decode the transition *)

Poll_keepState(a, b) ==
    /\ pc = "poll"
    /\ line' = NoLine
    /\ out' = <<>>
    /\ UNCHANGED <<last_send_time, data, clock, lastReportAt>>
    /\ LET current_state == State(a, b) IN
       IF current_state # last_state
       THEN LET i == TableIndex(last_state, current_state)
                delta == Lookup(i)
            IN  /\ index' = i
                /\ IF delta # 0
                   THEN IF IsInt(position)
                        THEN /\ position.v + delta \in -MaxPos .. MaxPos
                             /\ accumulated_delta + delta \in -MaxAcc .. MaxAcc
                             /\ position' = JInt(position.v + delta)
                             /\ accumulated_delta' = accumulated_delta + delta
                             /\ led' = TRUE
                             /\ last_state' = current_state
                             /\ pc' = "send"
                        ELSE /\ pc' = "crashed"
                             /\ UNCHANGED <<position, accumulated_delta, led, last_state>>
                   ELSE /\ pc' = "send"
                        /\ UNCHANGED <<position, accumulated_delta, led, last_state>>
       ELSE /\ led' = FALSE
            /\ pc' = "send"
            /\ UNCHANGED <<position, accumulated_delta, last_state, index>>

Poll_ledStays(a, b) ==
    /\ pc = "poll"
    /\ line' = NoLine
    /\ out' = <<>>
    /\ UNCHANGED <<last_send_time, data, clock, lastReportAt>>
    /\ LET current_state == State(a, b) IN
       IF current_state # last_state
       THEN LET i == TableIndex(last_state, current_state)
                delta == Lookup(i)
            IN  /\ index' = i
                /\ IF delta # 0
                   THEN IF IsInt(position)
                        THEN /\ position.v + delta \in -MaxPos .. MaxPos
                             /\ accumulated_delta + delta \in -MaxAcc .. MaxAcc
                             /\ position' = JInt(position.v + delta)
                             /\ accumulated_delta' = accumulated_delta + delta
                             /\ led' = TRUE
                             /\ last_state' = current_state
                             /\ pc' = "send"
                        ELSE /\ pc' = "crashed"
                             /\ UNCHANGED <<position, accumulated_delta, led, last_state>>
                   ELSE /\ last_state' = current_state
                        /\ pc' = "send"
                        /\ UNCHANGED <<position, accumulated_delta, led>>
       ELSE /\ pc' = "send"
            /\ UNCHANGED <<position, accumulated_delta, last_state, index, led>>

Poll(a, b) ==
    /\ pc = "poll"
    /\ line' = NoLine
    /\ out' = <<>>
    /\ UNCHANGED <<last_send_time, data, clock, lastReportAt>>
    /\ LET current_state == State(a, b) IN
       IF current_state # last_state
       THEN LET i == TableIndex(last_state, current_state)
                delta == Lookup(i)
            IN  /\ index' = i
                /\ IF delta # 0
                   THEN IF IsInt(position)
                        THEN /\ position.v + delta \in -MaxPos .. MaxPos
                             /\ accumulated_delta + delta \in -MaxAcc .. MaxAcc
                             /\ position' = JInt(position.v + delta)
                             /\ accumulated_delta' = accumulated_delta + delta
                             /\ led' = TRUE
                             /\ last_state' = current_state
                             /\ pc' = "send"
                        ELSE \* position += delta raises TypeError, uncaught
                             /\ pc' = "crashed"
                             /\ UNCHANGED <<position, accumulated_delta, led, last_state>>
                   ELSE /\ last_state' = current_state
                        /\ pc' = "send"
                        /\ UNCHANGED <<position, accumulated_delta, led>>
       ELSE /\ led' = FALSE
            /\ pc' = "send"
            /\ UNCHANGED <<position, accumulated_delta, last_state, index>>

----------------------------------------------------------------------------
(* Main loop, lines 141-146: send accumulated deltas periodically *)

ShouldSend_noInterval(acc, now, last) == acc # 0

ShouldSend_noPending(acc, now, last) == (now - last) >= SEND_INTERVAL

ShouldSend(acc, now, last) == acc # 0 /\ (now - last) >= SEND_INTERVAL

Send_retry(d, ok) ==
    /\ pc = "send"
    /\ pc' = "cmd"
    /\ UNCHANGED <<position, last_state, index, led, data, line>>
    /\ LET now == clock + d IN
       /\ now <= MaxTime
       /\ clock' = now
       /\ IF ShouldSend(accumulated_delta, now, last_send_time)
          THEN /\ out' = send_encoder_data(out, accumulated_delta, position, "sched", now, ok)
               /\ accumulated_delta' = IF data /\ ok THEN 0 ELSE accumulated_delta
               /\ last_send_time' = now
               /\ lastReportAt' = IF data /\ ok THEN now ELSE lastReportAt
          ELSE /\ UNCHANGED <<out, accumulated_delta, last_send_time, lastReportAt>>

Send(d, ok) ==
    /\ pc = "send"
    /\ pc' = "cmd"
    /\ UNCHANGED <<position, last_state, index, led, data, line>>
    /\ LET now == clock + d IN
       /\ now <= MaxTime
       /\ clock' = now
       /\ IF ShouldSend(accumulated_delta, now, last_send_time)
          THEN /\ out' = send_encoder_data(out, accumulated_delta, position, "sched", now, ok)
               /\ accumulated_delta' = 0
               /\ last_send_time' = now
               /\ lastReportAt' = IF data /\ ok THEN now ELSE lastReportAt
          ELSE /\ UNCHANGED <<out, accumulated_delta, last_send_time, lastReportAt>>

----------------------------------------------------------------------------
(* handle_command(cmd), lines 85-108, branch by branch.  ok: the write    *)
(* the branch issues succeeds.  A failed write in the ping branch raises *)
(* out of handle_command; send_encoder_data swallows its own.            *)

\* if cmd_type == "reset":  (lines 91-98)
ResetBranch_deferred(cmd, ok) ==
    LET p == get(cmd, "position", JInt(0)) IN
    /\ clock + RESET_SLEEP <= MaxTime
    /\ position' = p
    /\ out' = out
    /\ led' = FALSE
    /\ clock' = clock + RESET_SLEEP

ResetBranch_noRestore(cmd, ok) ==
    LET p == get(cmd, "position", JInt(0)) IN
    /\ clock + RESET_SLEEP <= MaxTime
    /\ position' = p
    /\ out' = send_encoder_data(out, 0, p, "reset", clock, ok)
    /\ led' = IF ok THEN FALSE ELSE led
    /\ clock' = clock + RESET_SLEEP

ResetBranch(cmd, ok) ==
    LET p == get(cmd, "position", JInt(0)) IN
    /\ clock + RESET_SLEEP <= MaxTime
    /\ position' = p
    /\ out' = send_encoder_data(out, 0, p, "reset", clock, ok)
    /\ led' = FALSE     \* led.value = True; time.sleep(0.1); led.value = False
    /\ clock' = clock + RESET_SLEEP

\* elif cmd_type == "ping":  (lines 100-104)
PingBranch(ok) ==
    /\ out' = IF data THEN Append(out, PongMsg(position, clock, ok)) ELSE out
    /\ UNCHANGED <<position, led, clock>>

\* elif cmd_type == "led":  (lines 106-108)
LedBranch_defaultOn(cmd) ==
    /\ led' = Truthy(get(cmd, "on", JBool(TRUE)))
    /\ UNCHANGED <<position, out, clock>>

LedBranch(cmd) ==
    /\ led' = Truthy(get(cmd, "on", JBool(FALSE)))
    /\ UNCHANGED <<position, out, clock>>

\* no branch matches: handle_command returns
NoBranch_pong(ok) == PingBranch(ok)

NoBranch_zero(ok) == position' = JInt(0) /\ UNCHANGED <<out, led, clock>>

NoBranch(ok) == UNCHANGED <<position, out, led, clock>>

handle_command(cmd, ok) ==
    LET cmd_type == get(cmd, "type", JStr("")) IN
    IF IsStrEq(cmd_type, "reset") THEN ResetBranch(cmd, ok)
    ELSE IF IsStrEq(cmd_type, "ping") THEN PingBranch(ok)
    ELSE IF IsStrEq(cmd_type, "led") THEN LedBranch(cmd)
    ELSE NoBranch(ok)

(* check_for_commands(), lines 74-83.  l: the line waiting on the port,  *)
(* NoLine when in_waiting = 0.  Every exception is swallowed.            *)

\* lines 78-81, once readline() has returned l
after_readline(l, ok) ==
    /\ line' = strip(l)
    /\ LET parsed == json_loads(strip(l)) IN
       IF strip(l) # "" /\ parsed.ok /\ parsed.isdict
       THEN handle_command(parsed.val, ok)
       ELSE UNCHANGED <<position, out, led, clock>>

check_for_commands(l, ok) ==
    /\ pc = "cmd"
    /\ pc' = "poll"
    /\ UNCHANGED <<accumulated_delta, last_send_time, last_state, index, data, lastReportAt>>
    /\ IF data /\ l # NoLine
       THEN after_readline(l, ok)
       ELSE /\ line' = NoLine
            /\ UNCHANGED <<position, out, led, clock>>

(* readline() on a port whose timeout was never set (None: wait forever): *)
(* with in_waiting > 0 but no newline received yet, the call does not     *)
(* return until the rest of the line arrives.  (The time spent there is  *)
(* seen by the next reading of the clock, in Send.)                       *)

readline_blocks ==
    /\ pc = "cmd"
    /\ data
    /\ pc' = "readline"
    /\ UNCHANGED <<position, accumulated_delta, last_send_time, last_state, index,
                   led, data, clock, line, out, lastReportAt>>

readline_returns(l, ok) ==
    /\ pc = "readline"
    /\ pc' = "poll"
    /\ UNCHANGED <<accumulated_delta, last_send_time, last_state, index, data, lastReportAt>>
    /\ after_readline(l, ok)

----------------------------------------------------------------------------
(* History kept beside the program state, read off each step *)

SendAttempted ==
    pc = "send" /\ (Len(out') > Len(out) \/ last_send_time' # last_send_time)

Track ==
    /\ sinceAttempt' =
          IF pc = "poll" THEN sinceAttempt + (accumulated_delta' - accumulated_delta)
          ELSE IF SendAttempted THEN 0
          ELSE sinceAttempt
    /\ lastReported' =
          IF Len(out') > Len(out)
          THEN IF ~out'[Len(out')].ok \/ lastReported = Void THEN Void
               ELSE IF out'[Len(out')].type = "encoder" THEN out'[Len(out')].position
               ELSE lastReported
          ELSE lastReported
    /\ ledCmd' =
          IF pc = "poll" THEN led /\ line \in {L_LEDON, L_LEDSTR}
          ELSE IF pc = "send" THEN ledCmd
          ELSE FALSE

----------------------------------------------------------------------------
PollStep == \E a, b \in {0, 1} : Poll(a, b) /\ Track /\ UNCHANGED <<walk, inbuf>>

SendStep ==
    \E d \in 0 .. MaxAdvance, ok \in BOOLEAN :
        Send(d, ok) /\ Track /\ UNCHANGED <<walk, inbuf>>

CmdStep ==
    \E l \in Lines \cup {NoLine}, ok \in BOOLEAN :
        check_for_commands(l, ok) /\ Track /\ UNCHANGED <<walk, inbuf>>

BlockStep == readline_blocks /\ Track /\ UNCHANGED <<walk, inbuf>>

ReturnStep ==
    \E l \in Lines, ok \in BOOLEAN :
        readline_returns(l, ok) /\ Track /\ UNCHANGED <<walk, inbuf>>

Next == PollStep \/ SendStep \/ CmdStep \/ BlockStep \/ ReturnStep

Spec == Init /\ [][Next]_vars

----------------------------------------------------------------------------
(* The loop with no inbound traffic, recording every sample it polls:     *)
(* walk is the sequence of <<last_state, current_state>> pairs polled.    *)

WalkPoll ==
    \E a, b \in {0, 1} :
        /\ Len(walk) < MaxWalk
        /\ Poll(a, b)
        /\ Track
        /\ walk' = Append(walk, <<last_state, State(a, b)>>)
        /\ UNCHANGED inbuf

WalkNoCmd == check_for_commands(NoLine, TRUE) /\ Track /\ UNCHANGED <<walk, inbuf>>

NextWalk == WalkPoll \/ SendStep \/ WalkNoCmd

SpecWalk == Init /\ [][NextWalk]_vars

----------------------------------------------------------------------------
(* The loop with whole lines queueing on the port.  The host sends lines *)
(* at any moment; the program looks at the port only in                  *)
(* check_for_commands, so every arrival is taken just before that call.  *)

QueueLines == {L_PING, L_RESET2}

\* usb_cdc.data.readline(): the line returned and what stays in the buffer
readline_newest(buf) == [line |-> buf[Len(buf)], rest |-> SubSeq(buf, 1, Len(buf) - 1)]

readline(buf) == [line |-> Head(buf), rest |-> Tail(buf)]

Arrive ==
    \E l \in QueueLines :
        /\ pc = "cmd"
        /\ data
        /\ Len(inbuf) < MaxQueue
        /\ inbuf' = Append(inbuf, l)
        /\ UNCHANGED <<position, accumulated_delta, last_send_time, last_state, index,
                       led, data, clock, pc, line, out, lastReportAt, walk,
                       sinceAttempt, lastReported, ledCmd>>

QueueCmd ==
    \E ok \in BOOLEAN :
        /\ check_for_commands(IF inbuf = <<>> THEN NoLine ELSE readline(inbuf).line, ok)
        /\ Track
        /\ inbuf' = IF inbuf = <<>> THEN inbuf ELSE readline(inbuf).rest
        /\ UNCHANGED walk

NextQueue == PollStep \/ SendStep \/ Arrive \/ QueueCmd

SpecQueue == Init /\ [][NextQueue]_vars

----------------------------------------------------------------------------
(* Steps of the loop, as seen in a pair of states *)

PollDone == pc = "poll" /\ pc' = "send"
SendDone == pc = "send" /\ pc' = "cmd"
CmdDone == pc \in {"cmd", "readline"} /\ pc' = "poll"

\* the last write of the iteration
LastOut == out[Len(out)]

\* the write a step issued
Written == out'[Len(out')]
WroteOne == Len(out') = Len(out) + 1 /\ SubSeq(out', 1, Len(out)) = out

----------------------------------------------------------------------------
(* C1.  For each of the 16 (previous, current) pairs the delta a poll      *)
(* applies to position is the fixed table value: +1 at index 1, 7, 8, 14,  *)
(* -1 at index 2, 4, 11, 13, 0 elsewhere (so 0 for the same-state pairs    *)
(* 0, 5, 10, 15), and the index looked up is in 0..15.                     *)

FixedTable(i) ==
    IF i \in {1, 7, 8, 14} THEN 1 ELSE IF i \in {2, 4, 11, 13} THEN -1 ELSE 0

C1_DecoderAppliesTable ==
    [][PollDone =>
        LET i == 4 * last_state + last_state' IN
        /\ i \in 0 .. 15
        /\ index' \in -1 .. 15
        /\ (last_state' # last_state => index' = i)
        /\ (i \in {0, 5, 10, 15} => position' = position /\ index' = index)
        /\ IF IsInt(position)
           THEN /\ IsInt(position')
                /\ position'.v - position.v = FixedTable(i)
                /\ accumulated_delta' - accumulated_delta = FixedTable(i)
           ELSE position' = position /\ FixedTable(i) = 0]_vars

\* a poll of 11 after 01 (index 7) has just added +1 to position 0
C1_Witness ==
    /\ pc = "send"
    /\ index = 7
    /\ last_state = 3
    /\ position = JInt(1)
    /\ accumulated_delta = 1

----------------------------------------------------------------------------
(* C2.  With no command in between, polling 01, 11, 10, 00 from state 00   *)
(* changes position by +4 and polling 10, 11, 01, 00 changes it by -4;     *)
(* a walk of single-step transitions changes position by the number of    *)
(* clockwise steps minus the number of counter-clockwise steps.            *)
(* (Under SpecWalk position starts at 0 and no command arrives.)           *)

CW == { <<0, 1>>, <<1, 3>>, <<3, 2>>, <<2, 0>> }
CCW == { <<0, 2>>, <<2, 3>>, <<3, 1>>, <<1, 0>> }

CWWalk == << <<0, 1>>, <<1, 3>>, <<3, 2>>, <<2, 0>> >>
CCWWalk == << <<0, 2>>, <<2, 3>>, <<3, 1>>, <<1, 0>> >>

CountIn(S) == Cardinality({k \in 1 .. Len(walk) : walk[k] \in S})

C2_WalkSum ==
    /\ walk = CWWalk => position = JInt(4)
    /\ walk = CCWWalk => position = JInt(-4)
    /\ (\A k \in 1 .. Len(walk) : walk[k] \in CW \cup CCW)
          => position = JInt(CountIn(CW) - CountIn(CCW))

C2_Witness ==
    /\ pc = "poll"
    /\ walk = CWWalk
    /\ position = JInt(4)
    /\ last_state = 0

----------------------------------------------------------------------------
(* C3.  Handling a Reset command with position p sets position to p and    *)
(* clears accumulated_delta to 0, whatever the two held before.            *)

ResetLines == {L_RESET, L_RESET2, L_RESETSTR}

ResetPosition(l) ==
    CASE l = L_RESET -> JInt(0)
      [] l = L_RESET2 -> JInt(2)
      [] l = L_RESETSTR -> JStr("abc")

C3_ResetClearsPending ==
    [][CmdDone /\ line' \in ResetLines =>
        /\ position' = ResetPosition(line')
        /\ accumulated_delta' = 0]_vars

----------------------------------------------------------------------------
(* C4.  The scheduler never writes an encoder report while                 *)
(* accumulated_delta = 0, however long ago the last report was sent:       *)
(* every scheduled report carries a non-zero delta.                        *)

C4_NoZeroDeltaReport ==
    [][SendDone =>
        /\ accumulated_delta = 0 => out' = out
        /\ out' # out => Written.by = "sched" /\ Written.delta # 0]_vars

\* the interval has long elapsed since a report went out, nothing is
\* pending, and the send step of this iteration wrote nothing
C4_Witness ==
    /\ pc = "cmd"
    /\ data
    /\ lastReportAt >= 0
    /\ clock - last_send_time >= 2 * SEND_INTERVAL
    /\ accumulated_delta = 0
    /\ out = <<>>

----------------------------------------------------------------------------
(* C5.  Scheduled reports are rate-limited and coalesced: at each send     *)
(* now - last_send_time >= SEND_INTERVAL, so two consecutive scheduled     *)
(* reports are at least SEND_INTERVAL apart and the deltas polled within   *)
(* one interval go out in at most one report.                              *)

C5_RateLimited ==
    [][SendDone /\ out' # out =>
        /\ WroteOne
        /\ Written.at = clock'
        /\ clock' - last_send_time >= SEND_INTERVAL
        /\ lastReportAt >= 0 => clock' - lastReportAt >= SEND_INTERVAL
        /\ last_send_time' = clock']_vars

\* two deltas polled within one interval of the previous report left in
\* one report, SEND_INTERVAL or more after it
C5_Witness ==
    /\ pc = "cmd"
    /\ Len(out) = 1
    /\ LastOut.by = "sched"
    /\ LastOut.ok
    /\ LastOut.delta = 2
    /\ LastOut.at = lastReportAt
    /\ LastOut.at >= StartupTime + SEND_INTERVAL

----------------------------------------------------------------------------
(* C6.  When the scheduler fires, the report carries the whole             *)
(* accumulated_delta held before the send and the current position, and    *)
(* in the same step accumulated_delta becomes 0 and last_send_time becomes *)
(* now; three clockwise steps polled inside one interval from position 0   *)
(* leave in one report with delta 3 and position 3.                        *)

C6_ReportDrainsPending ==
    [][SendDone /\ out' # out =>
        /\ WroteOne
        /\ Written.type = "encoder"
        /\ Written.delta = accumulated_delta
        /\ Written.position = position
        /\ position' = position
        /\ accumulated_delta' = 0
        /\ last_send_time' = clock']_vars

\* accumulated_delta moves by one per poll, so delta 3 is three polls
C6_Witness ==
    /\ pc = "cmd"
    /\ Len(out) = 1
    /\ LastOut.type = "encoder"
    /\ LastOut.by = "sched"
    /\ LastOut.ok
    /\ LastOut.delta = 3
    /\ LastOut.position = JInt(3)
    /\ accumulated_delta = 0
    /\ last_send_time = clock

----------------------------------------------------------------------------
(* C7.  A Reset command with position p is answered in the iteration that  *)
(* reads it with the encoder report {delta 0, position p}, however little  *)
(* time has passed since the last scheduled report, and the reply leaves   *)
(* last_send_time alone.  (The reply is the write the handler issues; a    *)
(* write that raises is dropped.)                                          *)

C7_ResetRepliesAtOnce ==
    [][CmdDone /\ line' \in ResetLines =>
        /\ WroteOne
        /\ Written.type = "encoder"
        /\ Written.by = "reset"
        /\ Written.delta = 0
        /\ Written.position = ResetPosition(line')
        /\ Written.at = clock
        /\ last_send_time' = last_send_time]_vars

\* the reply follows a scheduled report of the same iteration
C7_Witness ==
    /\ pc = "poll"
    /\ line = L_RESET2
    /\ Len(out) = 2
    /\ out[1].by = "sched" /\ out[1].ok
    /\ out[2].by = "reset" /\ out[2].ok
    /\ out[2].delta = 0
    /\ out[2].position = JInt(2)
    /\ out[2].at - last_send_time < SEND_INTERVAL

----------------------------------------------------------------------------
(* C8.  A Ping command is answered at once with a Pong carrying the        *)
(* position held when the command is handled, and handling it leaves       *)
(* position, accumulated_delta, last_send_time and the LED unchanged.      *)

C8_PingRepliesPosition ==
    [][CmdDone /\ line' = L_PING =>
        /\ WroteOne
        /\ Written.type = "pong"
        /\ Written.position = position
        /\ Written.at = clock
        /\ UNCHANGED <<position, accumulated_delta, last_send_time, led>>]_vars

\* a ping handled while the LED is on and a delta is pending
C8_Witness ==
    /\ pc = "poll"
    /\ line = L_PING
    /\ Len(out) = 1
    /\ LastOut.type = "pong"
    /\ LastOut.position = JInt(2)
    /\ position = JInt(2)
    /\ accumulated_delta = 1
    /\ led

----------------------------------------------------------------------------
(* C9.  An inbound line that is empty, is not JSON, is JSON but no object, *)
(* has no type field or has an unrecognized type is discarded silently:    *)
(* nothing is written and position, accumulated_delta, last_send_time,     *)
(* last_state and the LED stay as they were.                               *)

DiscardedLines == {"", L_GARBAGE, L_NUMBER, L_NOTYPE, L_UNKNOWN}

C9_MalformedDiscarded ==
    [][CmdDone /\ line' \in DiscardedLines =>
        /\ out' = out
        /\ UNCHANGED <<position, accumulated_delta, last_send_time,
                       last_state, led>>]_vars

\* an unknown command type read while the LED is on and a delta is pending
C9_Witness ==
    /\ pc = "poll"
    /\ line = L_UNKNOWN
    /\ out = <<>>
    /\ accumulated_delta = 1
    /\ led

----------------------------------------------------------------------------
(* C10.  Whatever lines arrive (a reset whose position is a string         *)
(* included) and whatever the transport does, the poll loop never ends     *)
(* with an error: no reachable state is a crashed state.                   *)

C10_NeverCrashes == pc # "crashed"

----------------------------------------------------------------------------
(* C11.  When the write of a scheduled report fails, or the transport is   *)
(* absent, the report is dropped with no retry: accumulated_delta is still *)
(* cleared and last_send_time still advanced, position keeps every applied *)
(* delta, and the next scheduled report carries only the deltas applied    *)
(* after the failed attempt.                                               *)

SendDropped == SendAttempted /\ (out' = out \/ ~Written.ok)

C11_FailedSendDropped ==
    [][SendDone =>
        /\ SendDropped =>
              /\ accumulated_delta' = 0
              /\ last_send_time' = clock'
              /\ position' = position
              /\ Len(out') <= Len(out) + 1
        /\ out' # out => Written.delta = sinceAttempt]_vars

\* a scheduled report of two steps whose write raised: nothing is kept
\* for a retry
C11_Witness ==
    /\ pc = "cmd"
    /\ Len(out) = 1
    /\ LastOut.by = "sched"
    /\ ~LastOut.ok
    /\ LastOut.delta = 2
    /\ position = JInt(3)
    /\ accumulated_delta = 0
    /\ sinceAttempt = 0
    /\ last_send_time = clock

----------------------------------------------------------------------------
(* C12.  The inbound check never blocks the poll loop: with some bytes     *)
(* waiting but no complete line yet, the iteration still completes and the *)
(* pins keep being sampled.  (No reachable state has the loop waiting      *)
(* inside readline.)                                                       *)

C12_CheckNeverBlocks == pc # "readline"

----------------------------------------------------------------------------
(* C13.  position is changed only by a decoded non-zero delta or by a      *)
(* Reset command: in every step it stays the same, changes by exactly +1   *)
(* or -1 in a poll that saw a single-step transition, or is set to the     *)
(* position a Reset command carries.                                       *)

C13_PositionMutators ==
    [][\/ position' = position
       \/ /\ PollDone
          /\ <<last_state, last_state'>> \in CW \cup CCW
          /\ IsInt(position) /\ IsInt(position')
          /\ position'.v - position.v \in {-1, 1}
       \/ /\ CmdDone
          /\ line' \in ResetLines
          /\ position' = ResetPosition(line')]_vars

\* two clockwise steps, then a reset to 2 after one step back was polled
C13_Witness ==
    /\ pc = "poll"
    /\ line = L_RESET2
    /\ position = JInt(2)
    /\ accumulated_delta = -1
    /\ index = 13

----------------------------------------------------------------------------
(* C14.  A double-step transition (00<->11, 01<->10) leaves position and   *)
(* accumulated_delta alone but moves last_state to the new sample: after   *)
(* every poll last_state is the sample just taken, and the next transition *)
(* is decoded from it.  (Checked on the recorded walks of SpecWalk.)       *)

Diagonal == { <<0, 3>>, <<3, 0>>, <<1, 2>>, <<2, 1>> }

----------------------------------------------------------------------------
(* C15.  Handling a Reset command pulses the LED and restores it: when the *)
(* handler finishes the LED is off, whatever it was before and whether or  *)
(* not the write of the reply succeeded.                                   *)

C15_ResetLedRestored ==
    [][CmdDone /\ line' \in ResetLines => led' = FALSE]_vars

\* a reset whose reply failed to write, read in an iteration whose poll
\* had lit the LED for the step 00 -> 01 (nothing else was ever polled)
C15_Witness ==
    /\ pc = "poll"
    /\ line = L_RESET
    /\ Len(out) = 2
    /\ out[1].by = "sched" /\ out[1].position = JInt(1) /\ out[1].at = StartupTime
    /\ out[2].by = "reset" /\ ~out[2].ok
    /\ index = 1
    /\ led = FALSE

----------------------------------------------------------------------------
(* C16.  Handling a SetLed command sets the LED to the command's on value  *)
(* (false when the field is absent), writes nothing, and leaves position,  *)
(* accumulated_delta and last_send_time unchanged.                         *)

C16_SetLed ==
    [][CmdDone /\ line' \in {L_LED, L_LEDON} =>
        /\ led' = (line' = L_LEDON)
        /\ out' = out
        /\ UNCHANGED <<position, accumulated_delta, last_send_time>>]_vars

\* the pins never moved, so only the command can have lit the LED
C16_Witness ==
    /\ pc = "poll"
    /\ line = L_LEDON
    /\ index = -1
    /\ out = <<>>
    /\ position = JInt(0)
    /\ led

----------------------------------------------------------------------------
(* C17.  For a host that sums deltas the stream is self-consistent: in a   *)
(* run with no write failure, each scheduled report has position = the     *)
(* position of the encoder report emitted before it (scheduled report or   *)
(* reset reply, 0 if none) + its delta.                                    *)

C17_StreamConsistent ==
    [][SendDone /\ out' # out /\ Written.ok /\ lastReported.t = "int" =>
        /\ IsInt(Written.position)
        /\ Written.position.v = lastReported.v + Written.delta]_vars

----------------------------------------------------------------------------
(* C18.  The LED lit by a SetLed{on: true} command does not outlive the    *)
(* motion indicator: the first later poll whose sample equals last_state   *)
(* turns it off, so with the pins at rest it is off one iteration after    *)
(* the command.                                                            *)

C18_LedOffOnRest ==
    [][PollDone /\ last_state' = last_state => led' = FALSE]_vars

\* the pins never moved; the poll after the SetLed command put the LED out
C18_Witness ==
    /\ pc = "send"
    /\ ledCmd
    /\ index = -1
    /\ led = FALSE

----------------------------------------------------------------------------
(* C19.  Each iteration runs sample/decode, then the scheduler send, then  *)
(* the command check, and takes at most one inbound line: lines are        *)
(* handled in arrival order, one per iteration, a Pong or reset reply is   *)
(* written after the scheduled report of its iteration, and a Pong carries *)
(* the position that already holds the delta decoded in that iteration.    *)
(* (Checked with lines queueing on the port, SpecQueue.)                   *)

LoopOrder == { <<"poll", "send">>, <<"poll", "crashed">>, <<"send", "cmd">>,
               <<"cmd", "poll">> }

OutOrder ==
    /\ Len(out) <= 2
    /\ \A k \in 1 .. Len(out) :
          /\ out[k].by = "sched" => k = 1
          /\ out[k].type = "pong" => pc = "poll" /\ out[k].position = position
          /\ k = 2 => out[1].by = "sched" /\ out[2].by \in {"reset", "ping"}

C19_IterationOrder ==
    [][/\ pc' # pc => <<pc, pc'>> \in LoopOrder
       /\ pc' = pc => inbuf' = inbuf \/ (Len(inbuf') = Len(inbuf) + 1 /\
                                          SubSeq(inbuf', 1, Len(inbuf)) = inbuf)
       /\ CmdDone =>
            IF inbuf = <<>>
            THEN line' = NoLine /\ out' = out /\ inbuf' = inbuf
            ELSE line' = Head(inbuf) /\ inbuf' = Tail(inbuf)
       /\ pc' # pc /\ ~CmdDone => inbuf' = inbuf
       /\ OutOrder']_vars

\* the ping that arrived first is answered after the scheduled report of
\* the iteration, with the position that report carries; the reset that
\* arrived second is still waiting
C19_Witness ==
    /\ pc = "poll"
    /\ line = L_PING
    /\ inbuf = <<L_RESET2>>
    /\ Len(out) = 2
    /\ out[1].by = "sched" /\ out[1].delta = 1 /\ out[1].position = JInt(1)
    /\ out[1].at = StartupTime
    /\ out[2].type = "pong" /\ out[2].position = JInt(1)

====
